---- MODULE Spec2Model ----
(***************************************************************************)
(* Model of src/src/App.tsx: the reward picker component.                  *)
(*                                                                         *)
(* The component state is the six useState cells of App(); the external    *)
(* store is window.localStorage restricted to HISTORY_STORAGE_KEY.  Every  *)
(* operation is one event handler together with the re-render and the      *)
(* passive effect (persist history) that React runs after it.              *)
(*                                                                         *)
(* JavaScript values are tagged records of one shape, so that a value of   *)
(* any type can sit in the history cell: the initializer casts whatever    *)
(* JSON.parse returns to HistoryEntry[] without looking at it.             *)
(* The text held by the store is a sequence of JSON tokens; JSON.stringify *)
(* and JSON.parse are a printer and a recursive-descent parser over it.    *)
(***************************************************************************)
EXTENDS Integers, Sequences, FiniteSets, TLC

(***************************************************************************)
(* Bounds of the model.                                                    *)
(***************************************************************************)
MaxDraws == 11
MaxSelects == 2
MaxClears == 1
MaxStored == 11

(***************************************************************************)
(* Program constants.                                                      *)
(***************************************************************************)
HISTORY_LIMIT == 10
NumCards == 4
Cards == 0 .. (NumCards - 1)

\* the cards the model clicks: the first and the last
CardInputs == {0, NumCards - 1}

(***************************************************************************)
(* JavaScript values.  items holds the elements of an array, or the        *)
(* properties of an object as key, value, key, value, ... in insertion     *)
(* order.                                                                  *)
(***************************************************************************)
JsVal(tag, str, num, its) == [t |-> tag, s |-> str, n |-> num, items |-> its]
JsUndefined == JsVal("undefined", "", 0, <<>>)
JsNull == JsVal("null", "", 0, <<>>)
JsBool(b) == JsVal("boolean", "", IF b THEN 1 ELSE 0, <<>>)
JsNum(i) == JsVal("number", "", i, <<>>)
JsStr(str) == JsVal("string", str, 0, <<>>)
JsArr(its) == JsVal("array", "", 0, its)
JsObj(kvs) == JsVal("object", "", 0, kvs)

RECURSIVE PropIndex(_, _, _)
PropIndex(kvs, key, i) ==
    IF i > Len(kvs) THEN 0
    ELSE IF kvs[i].s = key THEN i
    ELSE PropIndex(kvs, key, i + 2)

\* o.key for an object o: undefined when the property is missing
GetProp(o, key) ==
    LET i == PropIndex(o.items, key, 1)
    IN IF i = 0 THEN JsUndefined ELSE o.items[i + 1]

\* o[key] = val while an object literal is read: a repeated key keeps its
\* place and takes the later value
SetProp(kvs, key, val) ==
    LET i == PropIndex(kvs, key, 1)
    IN IF i = 0 THEN kvs \o <<JsStr(key), val>>
       ELSE [kvs EXCEPT ![i + 1] = val]

(***************************************************************************)
(* The reward catalog.                                                     *)
(***************************************************************************)
Reward(id, title, description, icon) ==
    [id |-> id, title |-> title, description |-> description, icon |-> icon]

rewards ==
    << Reward("mug", "Devsmith Mug",
              "Limited ceramic mug for your next caffeine boost.", "icon-mug"),
       Reward("coupon", "Odoo Development Coupon",
              "Apply this coupon toward premium Odoo build time.", "icon-coupon"),
       Reward("stickers", "Sticker Set",
              "A playful sticker pack to brighten every device.", "icon-stickers"),
       Reward("mystery", "Mystery Add-on",
              "An extra surprise that appears in your inbox.", "icon-mystery") >>

\* a HistoryEntry object, its properties in the order the literal lists them
HistoryEntry(id, cardNumber, rewardTitle, rewardIcon, timestamp) ==
    JsObj(<< JsStr("id"), JsStr(id),
             JsStr("cardNumber"), JsNum(cardNumber),
             JsStr("rewardTitle"), JsStr(rewardTitle),
             JsStr("rewardIcon"), JsStr(rewardIcon),
             JsStr("timestamp"), JsNum(timestamp) >>)

(***************************************************************************)
(* JSON text: a sequence of tokens.                                        *)
(***************************************************************************)
Tok(kind, str, num) == [k |-> kind, s |-> str, n |-> num]
Punct(c) == Tok("punct", c, 0)
StrTok(str) == Tok("string", str, 0)
NumTok(i) == Tok("number", "", i)
LitTok(w) == Tok("literal", w, 0)
JunkTok(w) == Tok("junk", w, 0)

IsPunct(tok, c) == tok.k = "punct" /\ tok.s = c

RECURSIVE JSONStringify(_)
RECURSIVE StringifyElements(_, _)
RECURSIVE StringifyMembers(_, _)

StringifyElements(its, i) ==
    IF i > Len(its) THEN <<>>
    ELSE (IF i > 1 THEN <<Punct(",")>> ELSE <<>>)
         \o (IF its[i].t = "undefined" THEN <<LitTok("null")>>
             ELSE JSONStringify(its[i]))
         \o StringifyElements(its, i + 1)

StringifyMembers(kvs, i) ==
    IF i > Len(kvs) THEN <<>>
    ELSE (IF i > 1 THEN <<Punct(",")>> ELSE <<>>)
         \o <<StrTok(kvs[i].s), Punct(":")>>
         \o JSONStringify(kvs[i + 1])
         \o StringifyMembers(kvs, i + 2)

JSONStringify(v) ==
    CASE v.t = "null" -> <<LitTok("null")>>
      [] v.t = "boolean" -> <<LitTok(IF v.n = 1 THEN "true" ELSE "false")>>
      [] v.t = "number" -> <<NumTok(v.n)>>
      [] v.t = "string" -> <<StrTok(v.s)>>
      [] v.t = "array" ->
            <<Punct("[")>> \o StringifyElements(v.items, 1) \o <<Punct("]")>>
      [] v.t = "object" ->
            <<Punct("{")>> \o StringifyMembers(v.items, 1) \o <<Punct("}")>>

\* result of a parsing step: ok = FALSE is a SyntaxError
Parsed(v, nxt) == [ok |-> TRUE, val |-> v, next |-> nxt]
SyntaxError == [ok |-> FALSE, val |-> JsUndefined, next |-> 0]

RECURSIVE ParseValue(_, _)
RECURSIVE ParseElements(_, _, _)
RECURSIVE ParseMembers(_, _, _)

\* after "[" or ",": an element, then "," or "]"
ParseElements(toks, i, acc) ==
    LET r == ParseValue(toks, i)
    IN IF ~r.ok \/ r.next > Len(toks) THEN SyntaxError
       ELSE IF IsPunct(toks[r.next], "]")
            THEN Parsed(JsArr(Append(acc, r.val)), r.next + 1)
       ELSE IF IsPunct(toks[r.next], ",")
            THEN ParseElements(toks, r.next + 1, Append(acc, r.val))
       ELSE SyntaxError

\* after "{" or ",": a string, ":", a value, then "," or "}"
ParseMembers(toks, i, acc) ==
    IF i + 1 > Len(toks) \/ toks[i].k # "string" THEN SyntaxError
    ELSE IF ~IsPunct(toks[i + 1], ":") THEN SyntaxError
    ELSE LET r == ParseValue(toks, i + 2)
         IN IF ~r.ok \/ r.next > Len(toks) THEN SyntaxError
            ELSE IF IsPunct(toks[r.next], "}")
                 THEN Parsed(JsObj(SetProp(acc, toks[i].s, r.val)), r.next + 1)
            ELSE IF IsPunct(toks[r.next], ",")
                 THEN ParseMembers(toks, r.next + 1,
                                   SetProp(acc, toks[i].s, r.val))
            ELSE SyntaxError

ParseValue(toks, i) ==
    IF i > Len(toks) THEN SyntaxError
    ELSE LET tok == toks[i]
         IN CASE tok.k = "literal" /\ tok.s = "null" -> Parsed(JsNull, i + 1)
              [] tok.k = "literal" /\ tok.s = "true" ->
                    Parsed(JsBool(TRUE), i + 1)
              [] tok.k = "literal" /\ tok.s = "false" ->
                    Parsed(JsBool(FALSE), i + 1)
              [] tok.k = "number" -> Parsed(JsNum(tok.n), i + 1)
              [] tok.k = "string" -> Parsed(JsStr(tok.s), i + 1)
              [] IsPunct(tok, "[") ->
                    IF i + 1 <= Len(toks) /\ IsPunct(toks[i + 1], "]")
                    THEN Parsed(JsArr(<<>>), i + 2)
                    ELSE ParseElements(toks, i + 1, <<>>)
              [] IsPunct(tok, "{") ->
                    IF i + 1 <= Len(toks) /\ IsPunct(toks[i + 1], "}")
                    THEN Parsed(JsObj(<<>>), i + 2)
                    ELSE ParseMembers(toks, i + 1, <<>>)
              [] OTHER -> SyntaxError

\* JSON.parse(text): the whole text must be one value
JSONParse(toks) ==
    LET r == ParseValue(toks, 1)
    IN IF r.ok /\ r.next = Len(toks) + 1 THEN r ELSE SyntaxError

(***************************************************************************)
(* The external store: window.localStorage at HISTORY_STORAGE_KEY.         *)
(* env is the execution context: "browser" (the store works, but a write   *)
(* may exceed the quota), "denied" (window.localStorage throws whenever it *)
(* is touched), "nowindow" (typeof window === 'undefined': the component   *)
(* is rendered outside a browser, where no effect runs and no event is     *)
(* ever delivered).                                                        *)
(***************************************************************************)
Item(toks) == [present |-> TRUE, text |-> toks]
NoItem == [present |-> FALSE, text |-> <<>>]

Envs == {"browser", "denied", "nowindow"}

\* an entry left in the store by an earlier session
StoredEntry(k) ==
    HistoryEntry(ToString(k) \o "-" \o "a", ((k - 1) % NumCards) + 1,
                 rewards[((k - 1) % NumCards) + 1].title,
                 rewards[((k - 1) % NumCards) + 1].icon, k)

\* the log an earlier session left after k draws, newest first
RECURSIVE StoredLog(_)
StoredLog(k) == IF k = 0 THEN <<>> ELSE <<StoredEntry(k)>> \o StoredLog(k - 1)

StoredLens == {1, MaxStored}

\* an entry as a build with other property names would have written it
OlderShapeEntry ==
    JsObj(<< JsStr("id"), JsNum(1),
             JsStr("card"), JsNum(1),
             JsStr("reward"), JsStr("Devsmith Mug"),
             JsStr("icon"), JsStr("icon-mug"),
             JsStr("at"), JsNum(1),
             JsStr("version"), JsNum(0) >>)

\* what the store may hold when the component mounts
InitialStores ==
    { NoItem,
      Item(<<>>),
      Item(<<JunkTok("not json")>>),
      Item(<<Punct("["), Punct("{")>>),
      Item(<<LitTok("null")>>),
      Item(<<NumTok(5)>>),
      Item(<<StrTok("")>>),
      Item(<<StrTok("abc")>>),
      Item(<<Punct("{"), Punct("}")>>),
      Item(<<Punct("{"), StrTok("length"), Punct(":"), NumTok(0), Punct("}")>>),
      Item(<<Punct("["), Punct("]")>>),
      Item(<<Punct("["), LitTok("null"), Punct("]")>>),
      Item(JSONStringify(JsArr(<<OlderShapeEntry>>))) }
    \cup { Item(JSONStringify(JsArr(StoredLog(k)))) : k \in StoredLens }

(***************************************************************************)
(* Math.random() and Date.now().  Math.random is the engine's generator: a *)
(* deterministic sequence from a seed the program does not know.  It is    *)
(* modelled as a full-period generator over the sixteenths r/16, started   *)
(* from a seed in Seeds; its sixteen outputs reach each of the four        *)
(* rewards.  Date.now() advances by one between draws.                     *)
(***************************************************************************)
Seeds == {7}
MathRandomNext(r) == (5 * r + 1) % 16

\* Math.floor(Math.random() * rewards.length), as an index into rewards
RewardIndex(r) == ((r * Len(rewards)) \div 16) + 1

\* Math.random().toString(16).slice(2): r/16 prints as "0.<digit>", 0 as "0"
HexSuffix(r) ==
    << "", "1", "2", "3", "4", "5", "6", "7",
       "8", "9", "a", "b", "c", "d", "e", "f" >>[r + 1]

(***************************************************************************)
(* State.                                                                  *)
(***************************************************************************)
VARIABLES
    env,            \* execution context
    store,          \* localStorage[HISTORY_STORAGE_KEY]
    phase,          \* "unmounted", "mounted", "rendered" (without a window),
                    \* or "crashed" (an error tore the tree down)
    selectedCard,   \* NoCard or 0..3
    currentReward,  \* NoReward or an index into rewards
    statusMessage,
    isDrawing,
    isModalOpen,
    history,        \* a JavaScript value
    rng,            \* state of Math.random
    clock,          \* Date.now()
    nDraws, nSelects, nClears,   \* operation counters, for the bounds
    lastOp,         \* the operation that produced this state
    baseLen,        \* length of the log at mount or at the last clear
    drawn,          \* entries drawn since mount or the last clear, newest first
    drewSinceSelect \* a draw has succeeded since the selection last changed

vars == << env, store, phase, selectedCard, currentReward, statusMessage,
           isDrawing, isModalOpen, history, rng, clock,
           nDraws, nSelects, nClears, lastOp, baseLen, drawn,
           drewSinceSelect >>

NoCard == -1
NoReward == 0

Op(name, arg) == [op |-> name, arg |-> arg]

InitialStatus == "Pick one of the four cards below to begin."
SelectStatus == "Click again to open, or choose another card."
ChooseFirstStatus == "Choose a card first to start the draw."
OpenedStatus(card) == "You opened Card " \o ToString(card + 1) \o "!"

Init ==
    /\ env \in Envs
    /\ store \in (IF env = "nowindow" THEN {NoItem} ELSE InitialStores)
    /\ phase = "unmounted"
    /\ selectedCard = NoCard
    /\ currentReward = NoReward
    /\ statusMessage = InitialStatus
    /\ isDrawing = FALSE
    /\ isModalOpen = FALSE
    /\ history = JsUndefined
    /\ rng \in Seeds
    /\ clock = MaxStored
    /\ nDraws = 0 /\ nSelects = 0 /\ nClears = 0
    /\ lastOp = Op("none", NoCard)
    /\ baseLen = 0
    /\ drawn = <<>>
    /\ drewSinceSelect = FALSE

(***************************************************************************)
(* Rendering and the persist effect.                                       *)
(***************************************************************************)
\* v.length
JsLength(v) ==
    CASE v.t = "array" -> JsNum(Len(v.items))
      [] v.t = "string" -> JsNum(Len(v.s))
      [] v.t = "object" -> GetProp(v, "length")
      [] OTHER -> JsUndefined

\* {v} as a child of an element: React rejects plain objects
RECURSIVE ValidChild(_)
ValidChild(v) ==
    CASE v.t = "object" -> FALSE
      [] v.t = "array" -> \A i \in 1 .. Len(v.items) : ValidChild(v.items[i])
      [] OTHER -> TRUE

\* property read e.key on an array element e
EntryProp(e, key) == IF e.t = "object" THEN GetProp(e, key) ELSE JsUndefined

\* the history panel: does rendering it throw?
RenderThrows(h) ==
    \/ h.t \in {"null", "undefined"}
    \/ /\ JsLength(h) # JsNum(0)
       /\ \/ h.t # "array"
          \/ \E i \in 1 .. Len(h.items) :
                \/ h.items[i].t = "null"
                \/ ~ValidChild(EntryProp(h.items[i], "rewardIcon"))
                \/ ~ValidChild(EntryProp(h.items[i], "rewardTitle"))
                \/ ~ValidChild(EntryProp(h.items[i], "cardNumber"))

\* the useState initializer of history
InitialHistory(st, e) ==
    IF e = "nowindow" THEN JsArr(<<>>)
    ELSE IF e = "denied" THEN JsArr(<<>>)
    ELSE IF ~st.present \/ st.text = <<>> THEN JsArr(<<>>)
    ELSE LET r == JSONParse(st.text)
         IN IF r.ok THEN r.val ELSE JsArr(<<>>)

\* a persist effect that runs after the first render only
CommitPersistOnce(h, historyChanged, st) ==
    IF RenderThrows(h)
    THEN phase' = "crashed" /\ store' = st
    ELSE IF env = "nowindow"
    THEN phase' = "rendered" /\ store' = st
    ELSE IF ~historyChanged \/ phase # "unmounted"
    THEN phase' = "mounted" /\ store' = st
    ELSE \E quotaExceeded \in BOOLEAN :
            IF env = "denied" \/ quotaExceeded
            THEN phase' = "crashed" /\ store' = st
            ELSE phase' = "mounted" /\ store' = Item(JSONStringify(h))

\* the re-render after an update, then the persist effect when history is a
\* new value; st is the store as the handler left it
Commit(h, historyChanged, st) ==
    IF RenderThrows(h)
    THEN phase' = "crashed" /\ store' = st
    ELSE IF env = "nowindow"
    THEN phase' = "rendered" /\ store' = st
    ELSE IF ~historyChanged
    THEN phase' = "mounted" /\ store' = st
    ELSE \E quotaExceeded \in BOOLEAN :
            IF env = "denied" \/ quotaExceeded
            THEN phase' = "crashed" /\ store' = st
            ELSE phase' = "mounted" /\ store' = Item(JSONStringify(h))

Mount ==
    /\ phase = "unmounted"
    /\ history' = InitialHistory(store, env)
    /\ Commit(history', TRUE, store)
    /\ lastOp' = Op("mount", NoCard)
    /\ baseLen' = IF history'.t = "array" THEN Len(history'.items) ELSE 0
    /\ UNCHANGED << env, selectedCard, currentReward, statusMessage, isDrawing,
                    isModalOpen, rng, clock, nDraws, nSelects, nClears, drawn,
                    drewSinceSelect >>

(***************************************************************************)
(* Event handlers.  A handler is an operation of the component: it may be  *)
(* invoked in any mounted state, also where the control that triggers it   *)
(* is disabled or not rendered.  When the persist effect throws, the state *)
(* the handler produced has been committed; phase records that the error   *)
(* then tore the tree down.                                                *)
(***************************************************************************)
\* can [...v] be evaluated?
Iterable(v) == v.t \in {"array", "string"}

\* the elements [...v] yields; a string that got past the first render is ""
SpreadItems(v) == IF v.t = "array" THEN v.items ELSE <<>>

\* a slice that keeps one element too many
SliceOneMore(next, limit) ==
    SubSeq(next, 1, IF Len(next) < limit + 1 THEN Len(next) ELSE limit + 1)

\* next.slice(0, limit)
Slice(next, limit) ==
    SubSeq(next, 1, IF Len(next) < limit THEN Len(next) ELSE limit)

\* an entry that records the card's index instead of its number
NewEntryZeroBased(card, rewardIdx, r, now) ==
    HistoryEntry(ToString(now) \o "-" \o HexSuffix(r), card,
                 rewards[rewardIdx].title, rewards[rewardIdx].icon, now)

\* the entry the setHistory updater builds; r is what Math.random() returns
\* there and now is Date.now()
NewEntry(card, rewardIdx, r, now) ==
    HistoryEntry(ToString(now) \o "-" \o HexSuffix(r), card + 1,
                 rewards[rewardIdx].title, rewards[rewardIdx].icon, now)

\* an updater that keeps the last HISTORY_LIMIT elements instead of the first
HistoryUpdaterKeepLast(prev, entry) ==
    LET next == <<entry>> \o SpreadItems(prev)
    IN JsArr(IF Len(next) <= HISTORY_LIMIT THEN next
             ELSE SubSeq(next, Len(next) - HISTORY_LIMIT + 1, Len(next)))

\* the setHistory updater of handleDraw
HistoryUpdater(prev, entry) ==
    JsArr(Slice(<<entry>> \o SpreadItems(prev), HISTORY_LIMIT))

\* a batch in which the first queued value wins
FirstQueued(updates) == updates[1]

\* the value a state cell takes from the updates one handler queued on it:
\* React applies them in order when it re-renders, so the last one stands
LastQueued(updates) == updates[Len(updates)]

\* a draw that omits setCurrentReward(reward)
DrawRewardKeepsReward ==
    /\ nDraws < MaxDraws
    /\ nDraws' = nDraws + 1
    /\ rng' = MathRandomNext(MathRandomNext(rng))
    /\ clock' = clock + 1
    /\ LET rewardIdx == RewardIndex(rng)
           entry == NewEntry(selectedCard, rewardIdx,
                             MathRandomNext(rng), clock')
       IN IF Iterable(history)
          THEN /\ statusMessage' = OpenedStatus(selectedCard)
               /\ history' = HistoryUpdater(history, entry)
               /\ isModalOpen' = TRUE
               /\ isDrawing' = LastQueued(<<TRUE, FALSE>>)
               /\ drawn' = <<entry>> \o drawn
               /\ drewSinceSelect' = TRUE
               /\ Commit(history', TRUE, store)
               /\ UNCHANGED currentReward
          ELSE /\ phase' = "crashed"
               /\ UNCHANGED << store, currentReward, statusMessage,
                               history, isModalOpen, isDrawing, drawn,
                               drewSinceSelect >>
    /\ UNCHANGED << env, selectedCard, nSelects, nClears, baseLen >>

\* handleDraw past its guard: the draw, the re-render and the effect.
\* setIsDrawing(true) and setIsDrawing(false) are batched into one update, so
\* the cell is FALSE in the state that is rendered.  When prev cannot be
\* spread the updater throws while React renders: nothing is committed and
\* the tree is torn down.
DrawReward ==
    /\ nDraws < MaxDraws
    /\ nDraws' = nDraws + 1
    /\ rng' = MathRandomNext(MathRandomNext(rng))
    /\ clock' = clock + 1
    /\ LET rewardIdx == RewardIndex(rng)
           entry == NewEntry(selectedCard, rewardIdx,
                             MathRandomNext(rng), clock')
       IN IF Iterable(history)
          THEN /\ currentReward' = rewardIdx
               /\ statusMessage' = OpenedStatus(selectedCard)
               /\ history' = HistoryUpdater(history, entry)
               /\ isModalOpen' = TRUE
               /\ isDrawing' = LastQueued(<<TRUE, FALSE>>)
               /\ drawn' = <<entry>> \o drawn
               /\ drewSinceSelect' = TRUE
               /\ Commit(history', TRUE, store)
          ELSE /\ phase' = "crashed"
               /\ UNCHANGED << store, currentReward, statusMessage,
                               history, isModalOpen, isDrawing, drawn,
                               drewSinceSelect >>
    /\ UNCHANGED << env, selectedCard, nSelects, nClears, baseLen >>

\* a handleDraw without its guard
DrawBodyUnguarded == DrawReward

\* the body of handleDraw, with the re-render and the effect that follow
DrawBody ==
    IF selectedCard = NoCard
    THEN /\ statusMessage' = ChooseFirstStatus
         /\ Commit(history, FALSE, store)
         /\ UNCHANGED << env, selectedCard, currentReward, isDrawing,
                         isModalOpen, history, rng, clock,
                         nDraws, nSelects, nClears, baseLen, drawn,
                         drewSinceSelect >>
    ELSE DrawReward

HandleDraw ==
    /\ phase = "mounted"
    /\ DrawBody
    /\ lastOp' = Op("draw", selectedCard)

\* a handleCardSelect without the same-card branch
HandleCardSelectOnly(index) ==
    /\ phase = "mounted"
    /\ nSelects < MaxSelects
    /\ nSelects' = nSelects + 1
    /\ selectedCard' = index
    /\ currentReward' = NoReward
    /\ statusMessage' = SelectStatus
    /\ Commit(history, FALSE, store)
    /\ drewSinceSelect' = FALSE
    /\ UNCHANGED << env, isDrawing, isModalOpen, history, rng, clock,
                    nDraws, nClears, baseLen, drawn >>
    /\ lastOp' = Op("selectCard", index)

\* a handleCardSelect that leaves the status message as it was
HandleCardSelectNoStatus(index) ==
    /\ phase = "mounted"
    /\ IF selectedCard = index
       THEN DrawBody
       ELSE /\ nSelects < MaxSelects
            /\ nSelects' = nSelects + 1
            /\ selectedCard' = index
            /\ currentReward' = NoReward
            /\ drewSinceSelect' = FALSE
            /\ Commit(history, FALSE, store)
            /\ UNCHANGED << env, statusMessage, isDrawing, isModalOpen,
                            history, rng, clock, nDraws, nClears, baseLen,
                            drawn >>
    /\ lastOp' = Op("selectCard", index)

\* a handleCardSelect that keeps the reward of the card left behind
HandleCardSelectKeepsReward(index) ==
    /\ phase = "mounted"
    /\ IF selectedCard = index
       THEN DrawBody
       ELSE /\ nSelects < MaxSelects
            /\ nSelects' = nSelects + 1
            /\ selectedCard' = index
            /\ statusMessage' = SelectStatus
            /\ drewSinceSelect' = FALSE
            /\ Commit(history, FALSE, store)
            /\ UNCHANGED << env, currentReward, isDrawing, isModalOpen,
                            history, rng, clock, nDraws, nClears, baseLen,
                            drawn >>
    /\ lastOp' = Op("selectCard", index)

HandleCardSelect(index) ==
    /\ phase = "mounted"
    /\ IF selectedCard = index
       THEN DrawBody
       ELSE /\ nSelects < MaxSelects
            /\ nSelects' = nSelects + 1
            /\ selectedCard' = index
            /\ currentReward' = NoReward
            /\ statusMessage' = SelectStatus
            /\ drewSinceSelect' = FALSE
            /\ Commit(history, FALSE, store)
            /\ UNCHANGED << env, isDrawing, isModalOpen, history, rng, clock,
                            nDraws, nClears, baseLen, drawn >>
    /\ lastOp' = Op("selectCard", index)

\* a handleCloseModal that flips the flag
HandleCloseModalToggle ==
    /\ phase = "mounted"
    /\ isModalOpen' = ~isModalOpen
    /\ Commit(history, FALSE, store)
    /\ lastOp' = Op("closeModal", NoCard)
    /\ UNCHANGED << env, selectedCard, currentReward, statusMessage, isDrawing,
                    history, rng, clock, nDraws, nSelects, nClears,
                    baseLen, drawn, drewSinceSelect >>

HandleCloseModal ==
    /\ phase = "mounted"
    /\ isModalOpen' = FALSE
    /\ Commit(history, FALSE, store)
    /\ lastOp' = Op("closeModal", NoCard)
    /\ UNCHANGED << env, selectedCard, currentReward, statusMessage, isDrawing,
                    history, rng, clock, nDraws, nSelects, nClears,
                    baseLen, drawn, drewSinceSelect >>

\* window.localStorage.removeItem(HISTORY_STORAGE_KEY) under its guard; where
\* the store is denied the call throws inside the handler and removes nothing
RemoveItem(st) == IF env = "browser" THEN NoItem ELSE st

\* a handleClearHistory that also drops the selection
HandleClearHistoryResets ==
    /\ phase = "mounted"
    /\ nClears < MaxClears
    /\ nClears' = nClears + 1
    /\ history' = JsArr(<<>>)
    /\ selectedCard' = NoCard
    /\ Commit(history', TRUE, RemoveItem(store))
    /\ lastOp' = Op("clearHistory", NoCard)
    /\ baseLen' = 0
    /\ drawn' = <<>>
    /\ UNCHANGED << env, currentReward, statusMessage, isDrawing,
                    isModalOpen, rng, clock, nDraws, nSelects,
                    drewSinceSelect >>

\* a handleClearHistory that also closes the modal
HandleClearHistoryClosesModal ==
    /\ phase = "mounted"
    /\ nClears < MaxClears
    /\ nClears' = nClears + 1
    /\ history' = JsArr(<<>>)
    /\ isModalOpen' = FALSE
    /\ Commit(history', TRUE, RemoveItem(store))
    /\ lastOp' = Op("clearHistory", NoCard)
    /\ baseLen' = 0
    /\ drawn' = <<>>
    /\ UNCHANGED << env, selectedCard, currentReward, statusMessage,
                    isDrawing, rng, clock, nDraws, nSelects,
                    drewSinceSelect >>

HandleClearHistory ==
    /\ phase = "mounted"
    /\ nClears < MaxClears
    /\ nClears' = nClears + 1
    /\ history' = JsArr(<<>>)
    /\ Commit(history', TRUE, RemoveItem(store))
    /\ lastOp' = Op("clearHistory", NoCard)
    /\ baseLen' = 0
    /\ drawn' = <<>>
    /\ UNCHANGED << env, selectedCard, currentReward, statusMessage, isDrawing,
                    isModalOpen, rng, clock, nDraws, nSelects,
                    drewSinceSelect >>

Next ==
    \/ Mount
    \/ \E index \in CardInputs : HandleCardSelect(index)
    \/ HandleDraw
    \/ HandleCloseModal
    \/ HandleClearHistory

Spec == Init /\ [][Next]_vars

(***************************************************************************)
(* Properties.                                                             *)
(***************************************************************************)
Min(a, b) == IF a < b THEN a ELSE b

EmptyLog == JsArr(<<>>)

\* the log's length in a live session, where history is an array or ""
LogLength == JsLength(history).n

\* v is shaped as HistoryEntry[]
IsHistoryEntry(e) ==
    /\ e.t = "object"
    /\ GetProp(e, "id").t = "string"
    /\ GetProp(e, "cardNumber").t = "number"
    /\ GetProp(e, "rewardTitle").t = "string"
    /\ GetProp(e, "rewardIcon").t = "string"
    /\ GetProp(e, "timestamp").t = "number"

IsHistoryEntryArray(v) ==
    /\ v.t = "array"
    /\ \A i \in 1 .. Len(v.items) : IsHistoryEntry(v.items[i])

\* the stored text is JSON
ParsesAsJSON(st) == st.present /\ st.text # <<>> /\ JSONParse(st.text).ok

SessionDefaults ==
    /\ selectedCard = NoCard
    /\ currentReward = NoReward
    /\ isModalOpen = FALSE
    /\ isDrawing = FALSE

\* C1: after clearHistory and the write it triggers have completed, the
\* History Log is empty and the storage key is absent from the store.
C1_ClearRemovesKey ==
    (lastOp.op = "clearHistory" /\ phase = "mounted")
        => (history = EmptyLog /\ ~store.present)

\* C2: in every state of a live session the History Log length is between 0
\* and 10, whatever the store held at initialization.
C2_LengthWithinLimit ==
    phase = "mounted" => (LogLength >= 0 /\ LogLength <= HISTORY_LIMIT)

\* C3: initialization against stored content that is JSON but not an array
\* of HistoryEntry starts the session with an empty History Log and does not
\* crash.
C3_MalformedTreatedAsAbsent ==
    [][ ( /\ Mount
          /\ env = "browser"
          /\ ParsesAsJSON(store)
          /\ ~IsHistoryEntryArray(JSONParse(store.text).val) )
        => (history' = EmptyLog /\ phase' # "crashed") ]_vars

\* C4: initialization with the key missing, with text that is not JSON, or
\* with the store unavailable or failing to read, starts the session with an
\* empty History Log and default fields, and no error escapes.
C4_FailedReadStartsEmpty ==
    [][ ( /\ Mount
          /\ \/ env # "browser"
             \/ ~store.present
             \/ ~ParsesAsJSON(store) )
        => (history' = EmptyLog /\ SessionDefaults' /\ phase' # "crashed") ]_vars

\* C5 as stated: the History Log length equals min(10, successful draws since
\* the last clearHistory).
C5_LengthIsDrawsSinceClear ==
    phase = "mounted" => LogLength = Min(HISTORY_LIMIT, Len(drawn))

\* C5 as amended: with b the length of the log at initialization or 0 after
\* the last clearHistory, and d the successful draws since, the length is b
\* while d = 0 and min(10, b + d) once d >= 1; the first min(10, d) entries
\* are the d most recent draws, newest first, so after 11 draws the log is
\* exactly the 10 most recent.
C5_LengthIsBasePlusDraws ==
    phase = "mounted" =>
        /\ LogLength = IF drawn = <<>> THEN baseLen
                       ELSE Min(HISTORY_LIMIT, baseLen + Len(drawn))
        /\ drawn # <<>> =>
              /\ history.t = "array"
              /\ \A k \in 1 .. Min(HISTORY_LIMIT, Len(drawn)) :
                    history.items[k] = drawn[k]

C5_Witness ==
    /\ phase = "mounted"
    /\ Len(drawn) = HISTORY_LIMIT + 1
    /\ LogLength = HISTORY_LIMIT

C1_Witness ==
    /\ lastOp.op = "clearHistory"
    /\ phase = "mounted"
    /\ nDraws > 0
    /\ history = EmptyLog

\* C6: once an operation and its write have completed, a fresh session
\* initialized from the store starts with the History Log the running session
\* holds: the same entries in the same order.
C6_RoundTrip ==
    phase = "mounted" => InitialHistory(store, "browser") = history

C6_Witness ==
    /\ phase = "mounted"
    /\ lastOp.op = "draw"
    /\ Len(drawn) > HISTORY_LIMIT
    /\ Len(history.items) = HISTORY_LIMIT
    /\ InitialHistory(store, "browser") = history

\* a step that draws a reward: draw(), or selectCard on the selected card
SuccessfulDraw ==
    /\ selectedCard # NoCard
    /\ \/ lastOp'.op = "draw"
       \/ lastOp'.op = "selectCard" /\ lastOp'.arg = selectedCard
    /\ nDraws' = nDraws + 1
    /\ history.t = "array"

C8_PrependAndTruncate ==
    [][ SuccessfulDraw =>
          LET L == history.items
              M == history'.items
          IN /\ history'.t = "array"
             /\ Len(M) = Min(HISTORY_LIMIT, Len(L) + 1)
             /\ GetProp(M[1], "timestamp") = JsNum(clock')
             /\ \A k \in 2 .. Len(M) : M[k] = L[k - 1]
             /\ Len(M) < Len(L) + 1 => Len(L) + 1 > HISTORY_LIMIT ]_vars

C8_Witness ==
    /\ lastOp.op = "draw"
    /\ phase = "mounted"
    /\ baseLen = 1
    /\ Len(drawn) = HISTORY_LIMIT
    /\ Len(history.items) = HISTORY_LIMIT
    /\ history.items[1] = drawn[1]

\* C9: draw() with no card selected changes the status message only.
C9_DrawWithoutCard ==
    [][ (lastOp'.op = "draw" /\ selectedCard = NoCard) =>
          /\ statusMessage' = ChooseFirstStatus
          /\ UNCHANGED << history, currentReward, selectedCard, isModalOpen,
                          isDrawing, store, phase >> ]_vars

C9_Witness ==
    /\ lastOp = Op("draw", NoCard)
    /\ statusMessage = ChooseFirstStatus
    /\ selectedCard = NoCard
    /\ currentReward = NoReward

\* C10: selectCard(i) with card i already selected has exactly the effect of
\* draw().
C10_ReselectIsDraw ==
    [][ \A i \in Cards :
          (selectedCard = i /\ lastOp' = Op("selectCard", i)) => DrawBody ]_vars

C10_Witness ==
    /\ lastOp.op = "selectCard"
    /\ selectedCard = lastOp.arg
    /\ currentReward # NoReward
    /\ isModalOpen
    /\ statusMessage = OpenedStatus(selectedCard)

\* C11: selectCard(i) with no card or another card selected ends with card i
\* selected, no current reward and the guidance message, and leaves the
\* History Log as it was.
C11_SelectOtherCard ==
    [][ \A i \in Cards :
          (lastOp' = Op("selectCard", i) /\ selectedCard # i) =>
              /\ selectedCard' = i
              /\ currentReward' = NoReward
              /\ statusMessage' = SelectStatus
              /\ statusMessage' # ""
              /\ history' = history ]_vars

C11_Witness ==
    /\ lastOp.op = "selectCard"
    /\ selectedCard = lastOp.arg
    /\ nSelects = 2
    /\ ~drewSinceSelect
    /\ currentReward = NoReward
    /\ Len(drawn) >= 1

\* C12: closeModal() sets modal-open to false and changes nothing else;
\* a second call leaves the state as the first left it.
C12_CloseModalOnly ==
    [][ lastOp'.op = "closeModal" =>
          /\ isModalOpen' = FALSE
          /\ UNCHANGED << selectedCard, currentReward, history, statusMessage,
                          store, isDrawing, phase >>
          /\ lastOp.op = "closeModal" => UNCHANGED vars ]_vars

C12_Witness ==
    /\ lastOp.op = "closeModal"
    /\ ~isModalOpen
    /\ currentReward # NoReward
    /\ drawn # <<>>

\* C13: the current reward is non-null only if a card is selected and a draw
\* has succeeded since the selection last changed.
C13_RewardOnlyAfterDraw ==
    currentReward # NoReward => (selectedCard \in Cards /\ drewSinceSelect)

C13_Witness ==
    /\ currentReward = NoReward
    /\ selectedCard \in Cards
    /\ nDraws > 0
    /\ nSelects = 2
    /\ ~drewSinceSelect

\* C14: a failure of the store write that follows a History Log change
\* (a draw with a card selected, or clearHistory) does not halt the session:
\* the component is still mounted after the operation.
C14_WriteFailureNonFatal ==
    [][ ( /\ lastOp'.op \in {"draw", "clearHistory"}
          /\ env = "browser"
          /\ IsHistoryEntryArray(history)
          /\ history' # history )
            => phase' = "mounted" ]_vars

\* C15: initialization by itself, selectCard to a different card, closeModal
\* and draw() with no card selected leave the store's content, the presence
\* and the value of the key, exactly as it was.
C15_StoreWrittenOnlyOnChange ==
    [][ ( \/ lastOp'.op = "mount"
          \/ lastOp'.op = "selectCard" /\ selectedCard # lastOp'.arg
          \/ lastOp'.op = "closeModal"
          \/ lastOp'.op = "draw" /\ selectedCard = NoCard )
            => store' = store ]_vars

\* the modal is rendered
ModalRendered == isModalOpen /\ currentReward # NoReward

\* C16 as stated: in every reachable state modal-open implies that the
\* current reward is non-null.
C16_OpenImpliesReward == isModalOpen => currentReward # NoReward

\* C16 amended: modal-open with a null current reward occurs only after the
\* selection was changed to another card since the last successful draw, and
\* then the modal is not rendered; in every other state modal-open implies
\* a non-null current reward.
C16_OpenWithoutRewardOnlyAfterReselect ==
    /\ (isModalOpen /\ currentReward = NoReward)
          => (selectedCard \in Cards /\ ~drewSinceSelect /\ nDraws > 0)
    /\ (isModalOpen /\ drewSinceSelect) => currentReward # NoReward
    /\ ModalRendered => currentReward # NoReward

C16_Witness ==
    /\ lastOp.op = "selectCard"
    /\ isModalOpen
    /\ currentReward = NoReward
    /\ ~ModalRendered
    /\ phase = "mounted"

\* the draw trigger's disabled attribute
DrawDisabled == isDrawing \/ selectedCard = NoCard

\* C17: drawing-in-progress is false in every state in which a user
\* operation can begin, so the draw trigger is disabled exactly when no card
\* is selected.
C17_NeverDrawingAtRest ==
    phase = "mounted" =>
        /\ isDrawing = FALSE
        /\ DrawDisabled <=> selectedCard = NoCard

C17_Witness ==
    /\ phase = "mounted"
    /\ lastOp.op = "draw"
    /\ selectedCard \in Cards
    /\ drewSinceSelect
    /\ ~isDrawing
    /\ ~DrawDisabled

\* C18: once a selectCard(i) has been performed the selected card is in
\* 0..3 in every later state, whatever operations follow; no operation
\* returns to NoneSelected, which occurs only before the first selectCard.
C18_SelectionNeverReset ==
    [][ /\ selectedCard \in Cards => selectedCard' \in Cards
        /\ lastOp'.op = "selectCard" =>
              (selectedCard' = lastOp'.arg /\ selectedCard' \in Cards)
        /\ selectedCard' = NoCard =>
              (selectedCard = NoCard /\ nSelects' = 0) ]_vars

C18_Witness ==
    /\ selectedCard \in Cards
    /\ lastOp.op = "clearHistory"
    /\ nDraws > 0
    /\ nSelects = 2

\* C19: clearHistory() leaves the selected card, the current reward, the
\* status message, the modal-open flag and the drawing-in-progress flag as
\* they were.
C19_ClearFrame ==
    [][ lastOp'.op = "clearHistory" =>
          UNCHANGED << selectedCard, currentReward, statusMessage,
                       isModalOpen, isDrawing >> ]_vars

C19_Witness ==
    /\ lastOp.op = "clearHistory"
    /\ history = EmptyLog
    /\ currentReward # NoReward
    /\ isModalOpen
    /\ statusMessage = OpenedStatus(selectedCard)

====
